---- MODULE Spec2Model ----
(***************************************************************************)
(* CFG construction of the compiler middle-end (src/src/ssa/cfg.py).       *)
(*                                                                         *)
(* The builder walks the AST of each function in source order.  The heap   *)
(* holds the BasicBlock objects (identified by allocation order, as Python *)
(* compares blocks by identity); the recursion of the tree walk is kept as *)
(* a stack of frames, one per enclosing compound statement, and the        *)
(* statements of every block are drawn one at a time, which enumerates     *)
(* every program within the bounds.                                        *)
(***************************************************************************)
EXTENDS Integers, Sequences, FiniteSets, TLC

VARIABLES heap, block_counter, tmp_var_counter, current_block, current_cfg,
          break_targets, continue_targets, cfgs, stack, pc, ninputs, last,
          sccp

vars == <<heap, block_counter, tmp_var_counter, current_block, current_cfg,
          break_targets, continue_targets, cfgs, stack, pc, ninputs, last,
          sccp>>

(* ---------------------------- bounds ---------------------------------- *)

MaxFuncs == 2

MaxStmts == 4

MaxDepth == 2

NumBlocks == 3

MaxCalls == 4

MaxPhiCalls == 4

MaxExprDepth == 2

(* ------------------------- values of the IR --------------------------- *)

\* Optional[BasicBlock] = None
NoBlock == 0

\* no SCCP pass has been created
NoSCCP == [phase |-> "idle"]

SSAValue(name) == name

OpStore(value) == [tag |-> "Store", value |-> value]

OpCall(name, args) == [tag |-> "Call", name |-> name, args |-> args]

OpBinary(type, op1, op2) == [tag |-> "Binary", type |-> type, op1 |-> op1, op2 |-> op2]

OpUnary(type, op) == [tag |-> "Unary", type |-> type, op |-> op]

InstAssign(lhs, rhs) == [inst |-> "Assign", lhs |-> lhs, rhs |-> rhs]

InstCmp(left, right) == [inst |-> "Cmp", left |-> left, right |-> right]

InstJump(kind, label) == [inst |-> "Jump", kind |-> kind, label |-> label]

\* value is <<>> for None and <<v>> for an SSAValue
InstReturn(value) == [inst |-> "Return", value |-> value]

\* rhs is a dict: a function from block labels to SSA values
OpPhi(lhs, rhs) == [inst |-> "Phi", lhs |-> lhs, rhs |-> rhs]

\* the empty dict
EmptyDict == [k \in {} |-> k]

\* d[key] = value
DictSet(d, key, value) ==
    [k \in DOMAIN d \cup {key} |-> IF k = key THEN value ELSE d[k]]

BasicBlock(label) ==
    [label |-> label, instructions |-> <<>>, phi_nodes |-> EmptyDict,
     preds |-> <<>>, succ |-> <<>>]

InSeq(x, s) == \E i \in 1..Len(s) : s[i] = x

\* insert_phi that replaces a phi already present
insert_phi_overwrite(h, self, name) ==
    [h EXCEPT ![self].phi_nodes = DictSet(@, name, OpPhi(SSAValue(name), EmptyDict))]

insert_phi(h, self, name) ==
    IF name \notin DOMAIN h[self].phi_nodes
    THEN [h EXCEPT ![self].phi_nodes = DictSet(@, name, OpPhi(SSAValue(name), EmptyDict))]
    ELSE h

append(h, self, inst) == [h EXCEPT ![self].instructions = Append(@, inst)]

\* add_child without the mirror update of bb.preds
add_child_one_sided(h, self, bb) ==
    IF InSeq(bb, h[self].succ) THEN h
    ELSE [h EXCEPT ![self].succ = Append(@, bb)]

add_child(h, self, bb) ==
    LET h1 == IF InSeq(bb, h[self].succ) THEN h
              ELSE [h EXCEPT ![self].succ = Append(@, bb)]
    IN  IF InSeq(self, h1[bb].preds) THEN h1
        ELSE [h1 EXCEPT ![bb].preds = Append(@, self)]

add_pred(h, self, bb) ==
    LET h1 == IF InSeq(bb, h[self].preds) THEN h
              ELSE [h EXCEPT ![self].preds = Append(@, bb)]
    IN  IF InSeq(self, h1[bb].succ) THEN h1
        ELSE [h1 EXCEPT ![bb].succ = Append(@, self)]

CFG(entry, exit, blocks) == [entry |-> entry, exit |-> exit, blocks |-> blocks]

RECURSIVE FindLabel(_, _, _, _)
FindLabel(h, blocks, name, i) ==
    IF i > Len(blocks) THEN NoBlock
    ELSE IF h[blocks[i]].label = name THEN blocks[i]
    ELSE FindLabel(h, blocks, name, i + 1)

get_block_by_name(h, cfg, name) == FindLabel(h, cfg.blocks, name, 1)

(* ------------------------------ the AST ------------------------------- *)

Identifier(name) == [type |-> "Identifier", name |-> name]

IntegerLiteral(value) == [type |-> "IntegerLiteral", value |-> value]

BinaryOp(op, left, right) == [type |-> "BinaryOp", op |-> op, left |-> left, right |-> right]

UnaryOp(op, operand) == [type |-> "UnaryOp", op |-> op, operand |-> operand]

CallExpression(func_name, args) == [type |-> "CallExpression", func_name |-> func_name, args |-> args]

Assignment(name, value) == [type |-> "Assignment", name |-> name, value |-> value]

Reassignment(name, value) == [type |-> "Reassignment", name |-> name, value |-> value]

\* the expressions the programs are written with
Exprs ==
    { IntegerLiteral(1),
      UnaryOp("-", Identifier("y")),
      CallExpression("add", <<IntegerLiteral(10), Identifier("x")>>) }

CondExprs == { BinaryOp("<", Identifier("i"), IntegerLiteral(10)) }

ForInits == { Assignment("i", IntegerLiteral(0)) }

ForUpdates == { Reassignment("i", BinaryOp("+", Identifier("i"), IntegerLiteral(1))) }

ReassignExprs == { Identifier("y"), BinaryOp("+", Identifier("x"), IntegerLiteral(1)) }

ReturnExprs == { BinaryOp("+", Identifier("x"), IntegerLiteral(1)) }

FuncName(i) == "f" \o ToString(i)

(* --------------------------- CFGBuilder ------------------------------- *)

\* _get_tmp_var_name: the name built from the counter c (the caller adds 1)
TmpVarName(c) == SSAValue("%" \o ToString(c))

BlockName(c) == "bb" \o ToString(c)

\* _build_sub_expression(expr, name) with the temporary counter at c:
\* the instructions appended to the current block, the value returned
\* and the counter afterwards
RECURSIVE BuildSubExpression(_, _, _)
RECURSIVE BuildArgs(_, _, _)
\* _build_sub_expression emitting a binary node's right operand first
BuildSubExpression_right_first(expr, name, c) ==
    CASE expr.type = "BinaryOp" ->
            LET l == BuildSubExpression(expr.left, TmpVarName(c), c + 1)
                r == BuildSubExpression(expr.right, TmpVarName(l.c), l.c + 1)
            IN  [insts |-> r.insts \o l.insts
                           \o <<InstAssign(name, OpBinary(expr.op, l.value, r.value))>>,
                 value |-> name, c |-> r.c]
      [] expr.type = "UnaryOp" ->
            LET s == BuildSubExpression(expr.operand, TmpVarName(c), c + 1)
            IN  [insts |-> s.insts \o <<InstAssign(name, OpUnary(expr.op, s.value))>>,
                 value |-> name, c |-> s.c]
      [] expr.type = "Identifier" ->
            [insts |-> <<>>, value |-> SSAValue(expr.name), c |-> c]
      [] expr.type = "IntegerLiteral" ->
            [insts |-> <<InstAssign(name, OpStore(expr.value))>>,
             value |-> name, c |-> c]
      [] expr.type = "CallExpression" ->
            LET a == BuildArgs(expr.args, 1, c)
            IN  [insts |-> a.insts \o <<InstAssign(name, OpCall(expr.func_name, a.values))>>,
                 value |-> name, c |-> a.c]

BuildSubExpression(expr, name, c) ==
    CASE expr.type = "BinaryOp" ->
            LET l == BuildSubExpression(expr.left, TmpVarName(c), c + 1)
                r == BuildSubExpression(expr.right, TmpVarName(l.c), l.c + 1)
            IN  [insts |-> l.insts \o r.insts
                           \o <<InstAssign(name, OpBinary(expr.op, l.value, r.value))>>,
                 value |-> name, c |-> r.c]
      [] expr.type = "UnaryOp" ->
            LET s == BuildSubExpression(expr.operand, TmpVarName(c), c + 1)
            IN  [insts |-> s.insts \o <<InstAssign(name, OpUnary(expr.op, s.value))>>,
                 value |-> name, c |-> s.c]
      [] expr.type = "Identifier" ->
            [insts |-> <<>>, value |-> SSAValue(expr.name), c |-> c]
      [] expr.type = "IntegerLiteral" ->
            [insts |-> <<InstAssign(name, OpStore(expr.value))>>,
             value |-> name, c |-> c]
      [] expr.type = "CallExpression" ->
            LET a == BuildArgs(expr.args, 1, c)
            IN  [insts |-> a.insts \o <<InstAssign(name, OpCall(expr.func_name, a.values))>>,
                 value |-> name, c |-> a.c]

\* the list comprehension over the arguments of a call, from argument i on
BuildArgs(args, i, c) ==
    IF i > Len(args) THEN [insts |-> <<>>, values |-> <<>>, c |-> c]
    ELSE LET s == BuildSubExpression(args[i], TmpVarName(c), c + 1)
             rest == BuildArgs(args, i + 1, s.c)
         IN  [insts |-> s.insts \o rest.insts,
              values |-> <<s.value>> \o rest.values, c |-> rest.c]

\* self.current_block.append(inst) for each instruction of a list
RECURSIVE AppendAll(_, _, _)
AppendAll(h, self, insts) ==
    IF insts = <<>> THEN h
    ELSE AppendAll(append(h, self, Head(insts)), self, Tail(insts))

Init ==
    /\ heap = <<>>
    /\ block_counter = 0
    /\ tmp_var_counter = 0
    /\ current_block = NoBlock
    /\ current_cfg = CFG(NoBlock, NoBlock, <<>>)
    /\ break_targets = <<>>
    /\ continue_targets = <<>>
    /\ cfgs = <<>>
    /\ stack = <<>>
    /\ pc = "build"
    /\ ninputs = 0
    /\ last = [stmt |-> "none"]
    /\ sccp = NoSCCP

\* the program point is inside a statement list and one more statement follows
InBlock == pc = "build" /\ stack # <<>> /\ ninputs < MaxStmts

CanNest == Len(stack) <= MaxDepth

\* _build_function that resets the temporary counter like the block counter
BuildFunction_reset_temporaries ==
    /\ pc = "build" /\ stack = <<>> /\ Len(cfgs) < MaxFuncs
    /\ LET entry == Len(heap) + 1
           exit_block == Len(heap) + 2
       IN  /\ heap' = heap \o <<BasicBlock("entry"), BasicBlock("exit")>>
           /\ current_cfg' = CFG(entry, exit_block, <<entry, exit_block>>)
           /\ current_block' = entry
    /\ block_counter' = 0
    /\ tmp_var_counter' = 0
    /\ break_targets' = <<>>
    /\ continue_targets' = <<>>
    /\ stack' = <<[frame |-> "Function", name |-> FuncName(Len(cfgs) + 1)]>>
    /\ last' = [stmt |-> "enter"]
    /\ UNCHANGED <<cfgs, pc, ninputs>>
    /\ UNCHANGED sccp

\* build, one iteration: _build_function up to the call of _build_block
BuildFunction ==
    /\ pc = "build" /\ stack = <<>> /\ Len(cfgs) < MaxFuncs
    /\ LET entry == Len(heap) + 1
           exit_block == Len(heap) + 2
       IN  /\ heap' = heap \o <<BasicBlock("entry"), BasicBlock("exit")>>
           /\ current_cfg' = CFG(entry, exit_block, <<entry, exit_block>>)
           /\ current_block' = entry
    /\ block_counter' = 0
    /\ break_targets' = <<>>
    /\ continue_targets' = <<>>
    /\ stack' = <<[frame |-> "Function", name |-> FuncName(Len(cfgs) + 1)]>>
    /\ last' = [stmt |-> "enter"]
    /\ UNCHANGED <<tmp_var_counter, cfgs, pc, ninputs>>
    /\ UNCHANGED sccp

\* _build_function after _build_block returned, and cfgs[func.name] = cfg
FunctionEnd ==
    /\ pc = "build" /\ stack # <<>> /\ Head(stack).frame = "Function"
    /\ heap' = IF heap[current_block].succ = <<>>
               THEN add_child(heap, current_block, current_cfg.exit)
               ELSE heap
    /\ cfgs' = Append(cfgs, [name |-> Head(stack).name, cfg |-> current_cfg])
    /\ stack' = Tail(stack)
    /\ last' = [stmt |-> "Function", block |-> current_block]
    /\ UNCHANGED <<block_counter, tmp_var_counter, current_block, current_cfg,
                   break_targets, continue_targets, pc, ninputs>>
    /\ UNCHANGED sccp

\* build returns the dictionary
BuildFinish ==
    /\ pc = "build" /\ stack = <<>>
    /\ pc' = "done"
    /\ UNCHANGED <<heap, block_counter, tmp_var_counter, current_block, current_cfg,
                   break_targets, continue_targets, cfgs, stack, ninputs, last>>
    /\ UNCHANGED sccp

\* _build_assignment
BuildAssignment ==
    /\ InBlock
    /\ \E value \in Exprs :
         LET stmt == Assignment("x", value)
             e == BuildSubExpression(stmt.value, SSAValue(stmt.name), tmp_var_counter)
         IN  /\ heap' = AppendAll(heap, current_block, e.insts)
             /\ tmp_var_counter' = e.c
             /\ last' = [stmt |-> "Assignment", name |-> stmt.name, value |-> stmt.value,
                         block |-> current_block,
                         before |-> Len(heap[current_block].instructions)]
    /\ ninputs' = ninputs + 1
    /\ UNCHANGED <<block_counter, current_block, current_cfg, break_targets,
                   continue_targets, cfgs, stack, pc>>
    /\ UNCHANGED sccp

\* _build_reassignment
BuildReassignment ==
    /\ InBlock
    /\ \E value \in ReassignExprs :
         LET stmt == Reassignment("x", value)
             e == BuildSubExpression(stmt.value, SSAValue(stmt.name), tmp_var_counter)
         IN  /\ heap' = AppendAll(heap, current_block, e.insts)
             /\ tmp_var_counter' = e.c
             /\ last' = [stmt |-> "Reassignment", name |-> stmt.name, value |-> stmt.value,
                         block |-> current_block,
                         before |-> Len(heap[current_block].instructions)]
    /\ ninputs' = ninputs + 1
    /\ UNCHANGED <<block_counter, current_block, current_cfg, break_targets,
                   continue_targets, cfgs, stack, pc>>
    /\ UNCHANGED sccp

\* _build_function_call
BuildFunctionCall ==
    /\ InBlock
    /\ \E args \in { <<Identifier("x"), IntegerLiteral(2)>> } :
         LET stmt == [type |-> "FunctionCall", name |-> "add", args |-> args]
             tmp == TmpVarName(tmp_var_counter)
             a == BuildArgs(stmt.args, 1, tmp_var_counter + 1)
         IN  /\ heap' = append(AppendAll(heap, current_block, a.insts), current_block,
                               InstAssign(tmp, OpCall(stmt.name, a.values)))
             /\ tmp_var_counter' = a.c
             /\ last' = [stmt |-> "FunctionCall", block |-> current_block,
                         before |-> Len(heap[current_block].instructions)]
    /\ ninputs' = ninputs + 1
    /\ UNCHANGED <<block_counter, current_block, current_cfg, break_targets,
                   continue_targets, cfgs, stack, pc>>
    /\ UNCHANGED sccp

\* _new_block() without a name, allocated at the end of heap h
NewBlock(h, c) == Append(h, BasicBlock(BlockName(c)))

\* _build_return that leaves the cursor on the block holding the Return
BuildReturn_keep_cursor ==
    /\ InBlock
    /\ \E value \in {<<>>} \cup { <<e>> : e \in ReturnExprs } :
         LET stmt == [type |-> "Return", value |-> value]
             e == IF stmt.value # <<>>
                  THEN BuildSubExpression(stmt.value[1], TmpVarName(tmp_var_counter),
                                          tmp_var_counter + 1)
                  ELSE [insts |-> <<>>, value |-> "", c |-> tmp_var_counter]
             ret == IF stmt.value # <<>> THEN InstReturn(<<e.value>>) ELSE InstReturn(<<>>)
             h1 == append(AppendAll(heap, current_block, e.insts), current_block, ret)
             h2 == add_child(h1, current_block, current_cfg.exit)
         IN  /\ heap' = NewBlock(h2, block_counter)
             /\ tmp_var_counter' = e.c
             /\ last' = [stmt |-> "Return", block |-> current_block,
                         before |-> Len(heap[current_block].instructions),
                         value |-> stmt.value, ret_ssa |-> e.value]
    /\ current_block' = current_block
    /\ block_counter' = block_counter + 1
    /\ ninputs' = ninputs + 1
    /\ UNCHANGED <<current_cfg, break_targets, continue_targets, cfgs, stack, pc>>
    /\ UNCHANGED sccp

\* _build_return; stmt.value is <<>> for None and <<e>> for an expression
BuildReturn ==
    /\ InBlock
    /\ \E value \in {<<>>} \cup { <<e>> : e \in ReturnExprs } :
         LET stmt == [type |-> "Return", value |-> value]
             e == IF stmt.value # <<>>
                  THEN BuildSubExpression(stmt.value[1], TmpVarName(tmp_var_counter),
                                          tmp_var_counter + 1)
                  ELSE [insts |-> <<>>, value |-> "", c |-> tmp_var_counter]
             ret == IF stmt.value # <<>> THEN InstReturn(<<e.value>>) ELSE InstReturn(<<>>)
             h1 == append(AppendAll(heap, current_block, e.insts), current_block, ret)
             h2 == add_child(h1, current_block, current_cfg.exit)
         IN  /\ heap' = NewBlock(h2, block_counter)
             /\ tmp_var_counter' = e.c
             /\ last' = [stmt |-> "Return", block |-> current_block,
                         before |-> Len(heap[current_block].instructions),
                         value |-> stmt.value, ret_ssa |-> e.value]
    /\ current_block' = Len(heap) + 1
    /\ block_counter' = block_counter + 1
    /\ ninputs' = ninputs + 1
    /\ UNCHANGED <<current_cfg, break_targets, continue_targets, cfgs, stack, pc>>
    /\ UNCHANGED sccp

\* _build_break that takes the bottom of the stack
BuildBreak_outermost ==
    /\ InBlock
    /\ IF break_targets # <<>>
       THEN LET target == break_targets[1]
            IN  /\ heap' = append(add_child(heap, current_block, target), current_block,
                                  InstJump("jmp", heap[target].label))
                /\ pc' = pc
                /\ last' = [stmt |-> "Break", block |-> current_block, target |-> target, prev |-> last.stmt,
                            before |-> Len(heap[current_block].instructions)]
       ELSE /\ pc' = "error"
            /\ last' = [stmt |-> "Break", block |-> current_block, target |-> NoBlock, prev |-> last.stmt,
                        before |-> Len(heap[current_block].instructions)]
            /\ heap' = heap
    /\ ninputs' = ninputs + 1
    /\ UNCHANGED <<block_counter, tmp_var_counter, current_block, current_cfg,
                   break_targets, continue_targets, cfgs, stack>>
    /\ UNCHANGED sccp

\* _build_break: the assert raises when no loop is open
BuildBreak ==
    /\ InBlock
    /\ IF break_targets # <<>>
       THEN LET target == break_targets[Len(break_targets)]
            IN  /\ heap' = append(add_child(heap, current_block, target), current_block,
                                  InstJump("jmp", heap[target].label))
                /\ pc' = pc
                /\ last' = [stmt |-> "Break", block |-> current_block, target |-> target, prev |-> last.stmt,
                            before |-> Len(heap[current_block].instructions)]
       ELSE /\ pc' = "error"
            /\ last' = [stmt |-> "Break", block |-> current_block, target |-> NoBlock, prev |-> last.stmt,
                        before |-> Len(heap[current_block].instructions)]
            /\ heap' = heap
    /\ ninputs' = ninputs + 1
    /\ UNCHANGED <<block_counter, tmp_var_counter, current_block, current_cfg,
                   break_targets, continue_targets, cfgs, stack>>
    /\ UNCHANGED sccp

\* _build_continue: nothing is done when no loop is open
BuildContinue ==
    /\ InBlock
    /\ IF continue_targets # <<>>
       THEN LET target == continue_targets[Len(continue_targets)]
            IN  /\ heap' = append(add_child(heap, current_block, target), current_block,
                                  InstJump("jmp", heap[target].label))
                /\ last' = [stmt |-> "Continue", block |-> current_block, target |-> target, prev |-> last.stmt,
                            before |-> Len(heap[current_block].instructions)]
       ELSE /\ heap' = heap
            /\ last' = [stmt |-> "Continue", block |-> current_block, target |-> NoBlock, prev |-> last.stmt,
                        before |-> Len(heap[current_block].instructions)]
    /\ ninputs' = ninputs + 1
    /\ UNCHANGED <<block_counter, tmp_var_counter, current_block, current_cfg,
                   break_targets, continue_targets, cfgs, stack, pc>>
    /\ UNCHANGED sccp

\* _build_statement, case Block(): _build_block on the nested statement list
BuildBlock ==
    /\ InBlock /\ CanNest
    /\ stack' = <<[frame |-> "Block"]>> \o stack
    /\ last' = [stmt |-> "enter"]
    /\ ninputs' = ninputs + 1
    /\ UNCHANGED <<heap, block_counter, tmp_var_counter, current_block, current_cfg,
                   break_targets, continue_targets, cfgs, pc>>
    /\ UNCHANGED sccp

\* _build_block returns from a nested Block statement
BlockEnd ==
    /\ pc = "build" /\ stack # <<>> /\ Head(stack).frame = "Block"
    /\ stack' = Tail(stack)
    /\ last' = [stmt |-> "Block", block |-> current_block]
    /\ UNCHANGED <<heap, block_counter, tmp_var_counter, current_block, current_cfg,
                   break_targets, continue_targets, cfgs, pc, ninputs>>
    /\ UNCHANGED sccp

\* _build_condition up to the first call of _build_block: the else branch
\* when there is one, the then branch otherwise
BuildCondition ==
    /\ InBlock /\ CanNest
    /\ \E condition \in CondExprs, has_else \in BOOLEAN :
         LET then_block == Len(heap) + 1
             merge_block == Len(heap) + 2
             else_block == Len(heap) + 3
             h0 == NewBlock(NewBlock(heap, block_counter), block_counter + 1)
             zero_var == TmpVarName(tmp_var_counter)
             h1 == append(h0, current_block, InstAssign(zero_var, OpStore(0)))
             e == BuildSubExpression(condition, TmpVarName(tmp_var_counter + 1),
                                     tmp_var_counter + 2)
             h2 == AppendAll(h1, current_block, e.insts)
             h3 == append(h2, current_block, InstCmp(e.value, zero_var))
             h4 == append(h3, current_block, InstJump("jnz", h3[then_block].label))
         IN  /\ tmp_var_counter' = e.c
             /\ IF ~has_else
                THEN LET h5 == append(h4, current_block,
                                      InstJump("jz", h4[merge_block].label))
                     IN  /\ heap' = add_child(h5, current_block, then_block)
                         /\ block_counter' = block_counter + 2
                         /\ current_block' = then_block
                         /\ stack' = <<[frame |-> "Then", start |-> current_block,
                                        then_block |-> then_block,
                                        else_block |-> NoBlock,
                                        merge_block |-> merge_block,
                                        else_end |-> NoBlock,
                                        zero_var |-> zero_var,
                                        cond_var |-> e.value]>> \o stack
                ELSE LET h5 == NewBlock(h4, block_counter + 2)
                         h6 == append(h5, current_block,
                                      InstJump("jz", h5[else_block].label))
                     IN  /\ heap' = add_child(h6, current_block, else_block)
                         /\ block_counter' = block_counter + 3
                         /\ current_block' = else_block
                         /\ stack' = <<[frame |-> "Else", start |-> current_block,
                                        then_block |-> then_block,
                                        else_block |-> else_block,
                                        merge_block |-> merge_block,
                                        old_block |-> current_block,
                                        zero_var |-> zero_var,
                                        cond_var |-> e.value]>> \o stack
    /\ last' = [stmt |-> "enter"]
    /\ ninputs' = ninputs + 1
    /\ UNCHANGED <<current_cfg, break_targets, continue_targets, cfgs, pc>>
    /\ UNCHANGED sccp

\* _build_condition between the else branch and the then branch
ConditionElseEnd ==
    /\ pc = "build" /\ stack # <<>> /\ Head(stack).frame = "Else"
    /\ LET f == Head(stack)
           h1 == add_child(heap, current_block, f.merge_block)
           h2 == append(h1, current_block, InstJump("jmp", h1[f.merge_block].label))
       IN  /\ heap' = add_child(h2, f.old_block, f.then_block)
           /\ current_block' = f.then_block
           /\ stack' = <<[frame |-> "Then", start |-> f.start,
                          then_block |-> f.then_block,
                          else_block |-> f.else_block,
                          merge_block |-> f.merge_block,
                          else_end |-> current_block,
                          zero_var |-> f.zero_var,
                          cond_var |-> f.cond_var]>> \o Tail(stack)
    /\ last' = [stmt |-> "enter"]
    /\ UNCHANGED <<block_counter, tmp_var_counter, current_cfg, break_targets,
                   continue_targets, cfgs, pc, ninputs>>
    /\ UNCHANGED sccp

\* _build_condition after the then branch, without the link to merge_block
ConditionThenEnd_no_merge_link ==
    /\ pc = "build" /\ stack # <<>> /\ Head(stack).frame = "Then"
    /\ LET f == Head(stack)
           h1 == heap
       IN  /\ heap' = append(h1, current_block, InstJump("jmp", h1[f.merge_block].label))
           /\ current_block' = f.merge_block
           /\ last' = [stmt |-> "Condition", block |-> f.start,
                       then_block |-> f.then_block, else_block |-> f.else_block,
                       merge_block |-> f.merge_block,
                       then_end |-> current_block, else_end |-> f.else_end,
                       zero_var |-> f.zero_var, cond_var |-> f.cond_var]
    /\ stack' = Tail(stack)
    /\ UNCHANGED <<block_counter, tmp_var_counter, current_cfg, break_targets,
                   continue_targets, cfgs, pc, ninputs>>
    /\ UNCHANGED sccp

\* _build_condition after the then branch
ConditionThenEnd ==
    /\ pc = "build" /\ stack # <<>> /\ Head(stack).frame = "Then"
    /\ LET f == Head(stack)
           h1 == add_child(heap, current_block, f.merge_block)
       IN  /\ heap' = append(h1, current_block, InstJump("jmp", h1[f.merge_block].label))
           /\ current_block' = f.merge_block
           /\ last' = [stmt |-> "Condition", block |-> f.start,
                       then_block |-> f.then_block, else_block |-> f.else_block,
                       merge_block |-> f.merge_block,
                       then_end |-> current_block, else_end |-> f.else_end,
                       zero_var |-> f.zero_var, cond_var |-> f.cond_var]
    /\ stack' = Tail(stack)
    /\ UNCHANGED <<block_counter, tmp_var_counter, current_cfg, break_targets,
                   continue_targets, cfgs, pc, ninputs>>
    /\ UNCHANGED sccp

\* _build_for_loop up to the call of _build_block on the body
BuildForLoop ==
    /\ InBlock /\ CanNest
    /\ \E init \in ForInits, condition \in CondExprs, update \in ForUpdates :
         LET stmt == [type |-> "ForLoop", init |-> init, condition |-> condition,
                      update |-> update]
             init_block == Len(heap) + 1
             header_block == Len(heap) + 2
             body_block == Len(heap) + 3
             update_block == Len(heap) + 4
             exit_block == Len(heap) + 5
             h0 == NewBlock(NewBlock(NewBlock(NewBlock(NewBlock(heap,
                       block_counter), block_counter + 1), block_counter + 2),
                       block_counter + 3), block_counter + 4)
             h1 == add_child(h0, current_block, init_block)
             h2 == append(h1, current_block, InstJump("jmp", h1[init_block].label))
             h3 == add_child(h2, init_block, header_block)
             zero_var == TmpVarName(tmp_var_counter)
             h4 == append(h3, init_block, InstAssign(zero_var, OpStore(0)))
             h5 == append(h4, init_block, InstJump("jmp", h4[header_block].label))
             h6 == add_child(h5, header_block, body_block)
             h7 == add_child(h6, header_block, exit_block)
             e == BuildSubExpression(stmt.condition, TmpVarName(tmp_var_counter + 1),
                                     tmp_var_counter + 2)
             h8 == AppendAll(h7, header_block, e.insts)
             h9 == append(h8, header_block, InstCmp(e.value, zero_var))
             h10 == append(h9, header_block, InstJump("jnz", h9[body_block].label))
         IN  /\ heap' = append(h10, header_block, InstJump("jmp", h10[exit_block].label))
             /\ tmp_var_counter' = e.c
             /\ break_targets' = Append(break_targets, exit_block)
             /\ continue_targets' = Append(continue_targets, update_block)
             /\ current_block' = body_block
             /\ stack' = <<[frame |-> "ForLoop", stmt |-> stmt, start |-> current_block,
                            init_block |-> init_block, header_block |-> header_block,
                            body_block |-> body_block, update_block |-> update_block,
                            exit_block |-> exit_block, zero_var |-> zero_var]>> \o stack
    /\ block_counter' = block_counter + 5
    /\ last' = [stmt |-> "enter"]
    /\ ninputs' = ninputs + 1
    /\ UNCHANGED <<current_cfg, cfgs, pc>>
    /\ UNCHANGED sccp

\* _build_for_loop after the body, the cursor left on the update block
ForLoopBodyEnd_cursor_on_update ==
    /\ pc = "build" /\ stack # <<>> /\ Head(stack).frame = "ForLoop"
    /\ LET f == Head(stack)
           h1 == add_child(heap, current_block, f.update_block)
           h2 == append(h1, current_block, InstJump("jmp", h1[f.update_block].label))
           h3 == add_child(h2, f.update_block, f.header_block)
           u == BuildSubExpression(f.stmt.update.value, SSAValue(f.stmt.update.name),
                                   tmp_var_counter)
           h4 == AppendAll(h3, f.update_block, u.insts)
       IN  /\ heap' = append(h4, f.update_block, InstJump("jmp", h4[f.header_block].label))
           /\ tmp_var_counter' = u.c
           /\ current_block' = f.update_block
           /\ last' = [stmt |-> "ForLoop", ast |-> f.stmt, block |-> f.start,
                       init_block |-> f.init_block, header_block |-> f.header_block,
                       body_block |-> f.body_block, update_block |-> f.update_block,
                       exit_block |-> f.exit_block, body_end |-> current_block,
                       update_insts |-> u.insts]
    /\ break_targets' = SubSeq(break_targets, 1, Len(break_targets) - 1)
    /\ continue_targets' = SubSeq(continue_targets, 1, Len(continue_targets) - 1)
    /\ stack' = Tail(stack)
    /\ UNCHANGED <<block_counter, current_cfg, cfgs, pc, ninputs>>
    /\ UNCHANGED sccp

\* _build_for_loop after the body
ForLoopBodyEnd ==
    /\ pc = "build" /\ stack # <<>> /\ Head(stack).frame = "ForLoop"
    /\ LET f == Head(stack)
           h1 == add_child(heap, current_block, f.update_block)
           h2 == append(h1, current_block, InstJump("jmp", h1[f.update_block].label))
           h3 == add_child(h2, f.update_block, f.header_block)
           u == BuildSubExpression(f.stmt.update.value, SSAValue(f.stmt.update.name),
                                   tmp_var_counter)
           h4 == AppendAll(h3, f.update_block, u.insts)
       IN  /\ heap' = append(h4, f.update_block, InstJump("jmp", h4[f.header_block].label))
           /\ tmp_var_counter' = u.c
           /\ current_block' = f.exit_block
           /\ last' = [stmt |-> "ForLoop", ast |-> f.stmt, block |-> f.start,
                       init_block |-> f.init_block, header_block |-> f.header_block,
                       body_block |-> f.body_block, update_block |-> f.update_block,
                       exit_block |-> f.exit_block, body_end |-> current_block,
                       update_insts |-> u.insts]
    /\ break_targets' = SubSeq(break_targets, 1, Len(break_targets) - 1)
    /\ continue_targets' = SubSeq(continue_targets, 1, Len(continue_targets) - 1)
    /\ stack' = Tail(stack)
    /\ UNCHANGED <<block_counter, current_cfg, cfgs, pc, ninputs>>
    /\ UNCHANGED sccp

\* _build_unconditional_loop up to the call of _build_block on the body
BuildUnconditionalLoop ==
    /\ InBlock /\ CanNest
    /\ LET init_block == Len(heap) + 1
           body_block == Len(heap) + 2
           exit_block == Len(heap) + 3
           h0 == NewBlock(NewBlock(NewBlock(heap, block_counter), block_counter + 1),
                          block_counter + 2)
           h1 == add_child(h0, current_block, init_block)
           h2 == append(h1, current_block, InstJump("jmp", h1[init_block].label))
           h3 == add_child(h2, init_block, body_block)
       IN  /\ heap' = append(h3, init_block, InstJump("jmp", h3[body_block].label))
           /\ break_targets' = Append(break_targets, exit_block)
           /\ continue_targets' = Append(continue_targets, init_block)
           /\ current_block' = body_block
           /\ stack' = <<[frame |-> "UnconditionalLoop", start |-> current_block,
                          init_block |-> init_block, body_block |-> body_block,
                          exit_block |-> exit_block]>> \o stack
    /\ block_counter' = block_counter + 3
    /\ last' = [stmt |-> "enter"]
    /\ ninputs' = ninputs + 1
    /\ UNCHANGED <<tmp_var_counter, current_cfg, cfgs, pc>>
    /\ UNCHANGED sccp

\* _build_unconditional_loop after the body
UnconditionalLoopBodyEnd ==
    /\ pc = "build" /\ stack # <<>> /\ Head(stack).frame = "UnconditionalLoop"
    /\ LET f == Head(stack)
           h1 == add_child(heap, current_block, f.init_block)
       IN  /\ heap' = append(h1, current_block, InstJump("jmp", h1[f.body_block].label))
           /\ current_block' = f.exit_block
           /\ last' = [stmt |-> "UnconditionalLoop", block |-> f.start,
                       init_block |-> f.init_block, body_block |-> f.body_block,
                       exit_block |-> f.exit_block, body_end |-> current_block]
    /\ break_targets' = SubSeq(break_targets, 1, Len(break_targets) - 1)
    /\ continue_targets' = SubSeq(continue_targets, 1, Len(continue_targets) - 1)
    /\ stack' = Tail(stack)
    /\ UNCHANGED <<block_counter, tmp_var_counter, current_cfg, cfgs, pc, ninputs>>
    /\ UNCHANGED sccp

Next ==
    \/ BuildFunction
    \/ FunctionEnd
    \/ BuildFinish
    \/ BuildAssignment
    \/ BuildReassignment
    \/ BuildFunctionCall
    \/ BuildReturn
    \/ BuildBreak
    \/ BuildContinue
    \/ BuildBlock
    \/ BlockEnd
    \/ BuildCondition
    \/ ConditionElseEnd
    \/ ConditionThenEnd
    \/ BuildForLoop
    \/ ForLoopBodyEnd
    \/ BuildUnconditionalLoop
    \/ UnconditionalLoopBodyEnd

Spec == Init /\ [][Next]_vars

(* ---------- BasicBlock.add_child / add_pred called directly ----------- *)

\* NumBlocks blocks fresh from the constructor, then any calls on them
InitLinks ==
    /\ heap = [i \in 1..NumBlocks |-> BasicBlock(BlockName(i - 1))]
    /\ block_counter = NumBlocks
    /\ tmp_var_counter = 0
    /\ current_block = NoBlock
    /\ current_cfg = CFG(NoBlock, NoBlock, <<>>)
    /\ break_targets = <<>>
    /\ continue_targets = <<>>
    /\ cfgs = <<>>
    /\ stack = <<>>
    /\ pc = "links"
    /\ ninputs = 0
    /\ last = [stmt |-> "none"]
    /\ sccp = NoSCCP

AddChildCall ==
    /\ pc = "links" /\ ninputs < MaxCalls
    /\ \E self \in 1..Len(heap), bb \in 1..Len(heap) :
         /\ heap' = add_child(heap, self, bb)
         /\ last' = [stmt |-> "add_child", self |-> self, bb |-> bb]
    /\ ninputs' = ninputs + 1
    /\ UNCHANGED <<block_counter, tmp_var_counter, current_block, current_cfg,
                   break_targets, continue_targets, cfgs, stack, pc>>
    /\ UNCHANGED sccp

AddPredCall ==
    /\ pc = "links" /\ ninputs < MaxCalls
    /\ \E self \in 1..Len(heap), bb \in 1..Len(heap) :
         /\ heap' = add_pred(heap, self, bb)
         /\ last' = [stmt |-> "add_pred", self |-> self, bb |-> bb]
    /\ ninputs' = ninputs + 1
    /\ UNCHANGED <<block_counter, tmp_var_counter, current_block, current_cfg,
                   break_targets, continue_targets, cfgs, stack, pc>>
    /\ UNCHANGED sccp

NextLinks == AddChildCall \/ AddPredCall

SpecLinks == InitLinks /\ [][NextLinks]_vars

(* ------------- _build_sub_expression on any expression ----------------- *)

ExprLeaves == {Identifier("x"), IntegerLiteral(1)}

\* the expressions of nesting depth at most d
RECURSIVE ExprsOfDepth(_)
ExprsOfDepth(d) ==
    IF d = 0 THEN ExprLeaves
    ELSE LET sub == ExprsOfDepth(d - 1)
         IN  sub \cup {BinaryOp("+", l, r) : l \in sub, r \in sub}
                 \cup {UnaryOp("-", o) : o \in sub}
                 \cup {CallExpression("add", <<a, b>>) : a \in sub, b \in ExprLeaves}

InitExpr ==
    /\ heap = <<BasicBlock("entry"), BasicBlock(BlockName(0))>>
    /\ block_counter = 1
    /\ tmp_var_counter = 0
    /\ current_block \in 1..Len(heap)
    /\ current_cfg = CFG(NoBlock, NoBlock, <<>>)
    /\ break_targets = <<>>
    /\ continue_targets = <<>>
    /\ cfgs = <<>>
    /\ stack = <<>>
    /\ pc = "expr"
    /\ ninputs = 0
    /\ last = [stmt |-> "none"]
    /\ sccp = NoSCCP

\* _get_tmp_var_name called by an earlier lowering
GetTmpVarName ==
    /\ pc = "expr" /\ tmp_var_counter < MaxExprDepth
    /\ tmp_var_counter' = tmp_var_counter + 1
    /\ UNCHANGED <<heap, block_counter, current_block, current_cfg, break_targets,
                   continue_targets, cfgs, stack, pc, ninputs, last>>
    /\ UNCHANGED sccp

\* _build_sub_expression(expr, SSAValue(name)) on the current block
LowerExpression ==
    /\ pc = "expr"
    /\ \E expr \in ExprsOfDepth(MaxExprDepth) :
         LET name == SSAValue("y")
             e == BuildSubExpression(expr, name, tmp_var_counter)
         IN  /\ heap' = AppendAll(heap, current_block, e.insts)
             /\ tmp_var_counter' = e.c
             /\ last' = [stmt |-> "Expression", expr |-> expr, name |-> name,
                         value |-> e.value, block |-> current_block,
                         before |-> heap]
    /\ pc' = "lowered"
    /\ ninputs' = ninputs + 1
    /\ UNCHANGED <<block_counter, current_block, current_cfg, break_targets,
                   continue_targets, cfgs, stack>>
    /\ UNCHANGED sccp

NextExpr == GetTmpVarName \/ LowerExpression

SpecExpr == InitExpr /\ [][NextExpr]_vars

(* --------------------- dominance analysis ------------------------------ *)

\* depth-first walk over succ from b; st = [seen, order], order in postorder
RECURSIVE DFS(_, _, _)
RECURSIVE DFSChildren(_, _, _, _)
DFS(h, b, st) ==
    IF b \in st.seen THEN st
    ELSE LET st1 == DFSChildren(h, h[b].succ, 1, [st EXCEPT !.seen = @ \cup {b}])
         IN  [st1 EXCEPT !.order = Append(@, b)]

DFSChildren(h, succ, i, st) ==
    IF i > Len(succ) THEN st
    ELSE DFSChildren(h, succ, i + 1, DFS(h, succ[i], st))

PostOrder(h, entry) == DFS(h, entry, [seen |-> {}, order |-> <<>>]).order

Reverse(s) == [i \in 1..Len(s) |-> s[Len(s) + 1 - i]]

\* the postorder number of every reachable block, 0 for the others
PostOrderNumber(h, post) ==
    [b \in 1..Len(h) |->
        IF InSeq(b, post) THEN CHOOSE i \in 1..Len(post) : post[i] = b ELSE 0]

\* Cooper-Harvey-Kennedy: the nearest common ancestor of b1 and b2
RECURSIVE Intersect(_, _, _, _)
Intersect(idom, po, b1, b2) ==
    IF b1 = b2 THEN b1
    ELSE IF po[b1] < po[b2] THEN Intersect(idom, po, idom[b1], b2)
    ELSE Intersect(idom, po, b1, idom[b2])

\* the intersection of the idoms of the processed predecessors, from pred i on
RECURSIVE NewIdom(_, _, _, _, _)
NewIdom(idom, po, preds, i, acc) ==
    IF i > Len(preds) THEN acc
    ELSE IF idom[preds[i]] = NoBlock THEN NewIdom(idom, po, preds, i + 1, acc)
    ELSE NewIdom(idom, po, preds, i + 1,
                 IF acc = NoBlock THEN preds[i]
                 ELSE Intersect(idom, po, preds[i], acc))

\* one pass over the reverse postorder, entry excluded
RECURSIVE IdomPass(_, _, _, _, _)
IdomPass(h, idom, po, rpo, i) ==
    IF i > Len(rpo) THEN idom
    ELSE LET b == rpo[i]
             n == NewIdom(idom, po, h[b].preds, 1, NoBlock)
         IN  IdomPass(h, [idom EXCEPT ![b] = n], po, rpo, i + 1)

\* iterate until no idom changes
RECURSIVE IdomFix(_, _, _, _)
IdomFix(h, idom, po, rpo) ==
    LET n == IdomPass(h, idom, po, rpo, 2)
    IN  IF n = idom THEN idom ELSE IdomFix(h, n, po, rpo)

\* idom of every block reachable from entry (entry is its own idom); NoBlock
\* for a block that is not reachable
compute_dominator_tree(h, entry) ==
    LET post == PostOrder(h, entry)
    IN  IdomFix(h, [b \in 1..Len(h) |-> IF b = entry THEN entry ELSE NoBlock],
                PostOrderNumber(h, post), Reverse(post))

dom_tree_children(idom, b) == {c \in DOMAIN idom : idom[c] = b /\ c # b}

\* walk up the idoms from runner, adding b to each DF until idom(b)
RECURSIVE DFWalk(_, _, _, _)
DFWalk(idom, df, b, runner) ==
    IF runner = idom[b] THEN df
    ELSE DFWalk(idom, [df EXCEPT ![runner] = @ \cup {b}], b, idom[runner])

RECURSIVE DFPreds(_, _, _, _, _)
DFPreds(idom, df, b, preds, i) ==
    IF i > Len(preds) THEN df
    ELSE DFPreds(idom,
                 IF idom[preds[i]] = NoBlock THEN df
                 ELSE DFWalk(idom, df, b, preds[i]),
                 b, preds, i + 1)

RECURSIVE DFBlocks(_, _, _, _)
DFBlocks(h, idom, df, b) ==
    IF b > Len(h) THEN df
    ELSE DFBlocks(h, idom,
                  IF idom[b] # NoBlock /\ Len(h[b].preds) >= 2
                  THEN DFPreds(idom, df, b, h[b].preds, 1)
                  ELSE df,
                  b + 1)

compute_dominance_frontier_graph(h, idom) ==
    DFBlocks(h, idom, [b \in 1..Len(h) |-> {}], 1)

(* ------------------------- SSA construction ---------------------------- *)

\* the names a function reads without assigning them first: its parameters
Params == {"x", "y", "i"}

\* the sentinel recorded for a name with no current version
Undef == "undef"

Version(base, n) == base \o "_v" \o ToString(n)

IsTmp(name) == \E c \in 0..tmp_var_counter : name = TmpVarName(c)

Reachable(idom) == {b \in DOMAIN idom : idom[b] # NoBlock}

\* the base names assigned in the blocks bs
AssignedNames(h, bs) ==
    UNION {{h[b].instructions[i].lhs :
                i \in {j \in 1..Len(h[b].instructions) :
                          h[b].instructions[j].inst = "Assign"}} : b \in bs}

\* the blocks holding an assignment to x; a parameter is defined in entry
Defs(h, idom, entry, x) ==
    {b \in Reachable(idom) :
        \E i \in 1..Len(h[b].instructions) :
            /\ h[b].instructions[i].inst = "Assign"
            /\ h[b].instructions[i].lhs = x}
    \cup (IF x \in Params THEN {entry} ELSE {})

\* the iterated dominance frontier of the blocks in work
RECURSIVE IDF(_, _, _)
IDF(df, work, placed) ==
    IF work = {} THEN placed
    ELSE LET b == CHOOSE w \in work : TRUE
             new == df[b] \ placed
         IN  IDF(df, (work \ {b}) \cup new, placed \cup new)

RECURSIVE InsertPhis(_, _, _)
InsertPhis(h, bs, x) ==
    IF bs = {} THEN h
    ELSE LET b == CHOOSE w \in bs : TRUE
         IN  InsertPhis(insert_phi(h, b, x), bs \ {b}, x)

\* phase 1: an empty phi for x in every block of IDF(Defs(x)), for each
\* source variable x of names
RECURSIVE PlacePhis(_, _, _, _, _)
PlacePhis(h, idom, df, entry, names) ==
    IF names = {} THEN h
    ELSE LET x == CHOOSE n \in names : TRUE
         IN  PlacePhis(InsertPhis(h, IDF(df, Defs(h, idom, entry, x), {}), x),
                       idom, df, entry, names \ {x})

\* the current version of a base name
StackTop(stacks, x) ==
    IF x \in DOMAIN stacks /\ stacks[x] # <<>> THEN stacks[x][Len(stacks[x])]
    ELSE Undef

\* allocate a fresh version of x and push it; st = [h, stacks, counters]
Push(st, x) ==
    LET n == st.counters[x] + 1
    IN  [st EXCEPT !.counters[x] = n, !.stacks[x] = Append(@, Version(x, n))]

RenameOperation(op, stacks) ==
    CASE op.tag = "Store" -> op
      [] op.tag = "Call" ->
            [op EXCEPT !.args = [k \in 1..Len(op.args) |-> StackTop(stacks, op.args[k])]]
      [] op.tag = "Binary" ->
            [op EXCEPT !.op1 = StackTop(stacks, @), !.op2 = StackTop(stacks, @)]
      [] op.tag = "Unary" -> [op EXCEPT !.op = StackTop(stacks, @)]

\* step 1: a fresh version for the lhs of every phi of block b
RECURSIVE RenamePhis(_, _, _)
RenamePhis(st, b, names) ==
    IF names = {} THEN st
    ELSE LET x == CHOOSE n \in names : TRUE
             st1 == Push(st, x)
         IN  RenamePhis([st1 EXCEPT !.h[b].phi_nodes[x].lhs = StackTop(st1.stacks, x)],
                        b, names \ {x})

\* step 2: operands rewritten to the current versions, then a fresh version
\* for the name an instruction defines
RECURSIVE RenameInstructions(_, _, _)
RenameInstructions(st, b, i) ==
    IF i > Len(st.h[b].instructions) THEN st
    ELSE LET inst == st.h[b].instructions[i]
         IN  CASE inst.inst = "Assign" ->
                    LET rhs == RenameOperation(inst.rhs, st.stacks)
                        st1 == Push(st, inst.lhs)
                    IN  RenameInstructions(
                            [st1 EXCEPT !.h[b].instructions[i] =
                                InstAssign(StackTop(st1.stacks, inst.lhs), rhs)],
                            b, i + 1)
               [] inst.inst = "Cmp" ->
                    RenameInstructions(
                        [st EXCEPT !.h[b].instructions[i] =
                            InstCmp(StackTop(st.stacks, inst.left), StackTop(st.stacks, inst.right))],
                        b, i + 1)
               [] inst.inst = "Return" ->
                    RenameInstructions(
                        [st EXCEPT !.h[b].instructions[i] =
                            InstReturn([k \in 1..Len(inst.value) |->
                                            StackTop(st.stacks, inst.value[k])])],
                        b, i + 1)
               [] OTHER -> RenameInstructions(st, b, i + 1)

\* step 3: the incoming entry of block b in the phis of successor s
RECURSIVE RecordIncoming(_, _, _, _)
RecordIncoming(st, b, s, names) ==
    IF names = {} THEN st
    ELSE LET x == CHOOSE n \in names : TRUE
         IN  RecordIncoming(
                 [st EXCEPT !.h[s].phi_nodes[x].rhs =
                     DictSet(@, st.h[b].label, StackTop(st.stacks, x))],
                 b, s, names \ {x})

RECURSIVE RecordSuccessors(_, _, _)
RecordSuccessors(st, b, i) ==
    IF i > Len(st.h[b].succ) THEN st
    ELSE LET s == st.h[b].succ[i]
         IN  RecordSuccessors(RecordIncoming(st, b, s, DOMAIN st.h[s].phi_nodes),
                              b, i + 1)

\* phase 2 on block b and, recursively, on its children in the dominator
\* tree; the versions pushed in b are popped on exit
RECURSIVE Rename(_, _, _)
RECURSIVE RenameChildren(_, _, _)
Rename(st, idom, b) ==
    LET st1 == RenamePhis(st, b, DOMAIN st.h[b].phi_nodes)
        st2 == RenameInstructions(st1, b, 1)
        st3 == RecordSuccessors(st2, b, 1)
        st4 == RenameChildren(st3, idom, dom_tree_children(idom, b))
    IN  [st4 EXCEPT !.stacks = st.stacks]

RenameChildren(st, idom, children) ==
    IF children = {} THEN st
    ELSE LET c == CHOOSE m \in children : \A o \in children : m <= o
         IN  RenameChildren(Rename(st, idom, c), idom, children \ {c})

\* SSABuilder.build(cfg): phi placement, then renaming from entry
SSABuilder_build(h, cfg) ==
    LET idom == compute_dominator_tree(h, cfg.entry)
        df == compute_dominance_frontier_graph(h, idom)
        names == Params \cup AssignedNames(h, Reachable(idom))
        h1 == PlacePhis(h, idom, df, cfg.entry, {x \in names : ~IsTmp(x)})
        st == [h |-> h1,
               stacks |-> [x \in names |-> IF x \in Params THEN <<Version(x, 1)>> ELSE <<>>],
               counters |-> [x \in names |-> IF x \in Params THEN 1 ELSE 0]]
    IN  Rename(st, idom, cfg.entry).h

\* ssa_builder.build(cfgs[0]) once the builder has returned the CFG of a
\* program of one function
SSABuild ==
    /\ pc = "done" /\ Len(cfgs) = 1
    /\ heap' = SSABuilder_build(heap, cfgs[1].cfg)
    /\ last' = [stmt |-> "SSA", cfg |-> 1, before |-> heap]
    /\ pc' = "ssa"
    /\ UNCHANGED <<block_counter, tmp_var_counter, current_block, current_cfg,
                   break_targets, continue_targets, cfgs, stack, ninputs>>
    /\ UNCHANGED sccp

NextSSA == Next \/ SSABuild

SpecSSA == Init /\ [][NextSSA]_vars

(* ------------- sparse conditional constant propagation ----------------- *)

\* the three-point lattice
Top == [k |-> "Top"]

Bottom == [k |-> "Bottom"]

Const(c) == [k |-> "Const", c |-> c]

\* Meet that lets the later constant win
Meet_last_constant(a, b) ==
    IF a = Top THEN b
    ELSE IF b = Top THEN a
    ELSE IF a = Bottom \/ b = Bottom THEN Bottom
    ELSE b

Meet(a, b) ==
    IF a = Top THEN b
    ELSE IF b = Top THEN a
    ELSE IF a = Bottom \/ b = Bottom THEN Bottom
    ELSE IF a.c = b.c THEN a ELSE Bottom

\* the integer literals of the programs the pass is run on
Literals == 0..11

\* the cell of an operand: a literal is its constant, and a name no instruction
\* defines (a parameter, undef) is Bottom
ValueOf(cell, v) ==
    IF v \in DOMAIN cell THEN cell[v]
    ELSE IF \E c \in Literals : v = ToString(c)
    THEN Const(CHOOSE c \in Literals : v = ToString(c))
    ELSE Bottom

FoldBinary(type, a, b) ==
    CASE type = "+" -> a + b
      [] type = "-" -> a - b
      [] type = "*" -> a * b
      [] type = "<" -> IF a < b THEN 1 ELSE 0
      [] type = ">" -> IF a > b THEN 1 ELSE 0
      [] type = "==" -> IF a = b THEN 1 ELSE 0

FoldUnary(type, a) ==
    CASE type = "-" -> 0 - a
      [] type = "!" -> IF a = 0 THEN 1 ELSE 0

\* instruction evaluation: Bottom if any operand is Bottom, the folded
\* constant if all are Const, Top otherwise; a call is opaque
EvalOperation(op, cell) ==
    CASE op.tag = "Store" -> Const(op.value)
      [] op.tag = "Call" -> Bottom
      [] op.tag = "Binary" ->
            LET a == ValueOf(cell, op.op1)
                b == ValueOf(cell, op.op2)
            IN  IF a = Bottom \/ b = Bottom THEN Bottom
                ELSE IF a = Top \/ b = Top THEN Top
                ELSE Const(FoldBinary(op.type, a.c, b.c))
      [] op.tag = "Unary" ->
            LET a == ValueOf(cell, op.op)
            IN  IF a \in {Bottom, Top} THEN a ELSE Const(FoldUnary(op.type, a.c))

\* a cell that changes puts its value on the SSA worklist
SetCell(st, v, new) ==
    IF new = st.cell[v] THEN st
    ELSE [st EXCEPT !.cell[v] = new, !.ssa_wl = @ \cup {v}]

\* phi evaluation: the meet over the operands of executable incoming edges
RECURSIVE MeetIncoming(_, _, _, _, _, _)
MeetIncoming(h, st, b, phi, i, acc) ==
    IF i > Len(h[b].preds) THEN acc
    ELSE LET p == h[b].preds[i]
         IN  MeetIncoming(h, st, b, phi, i + 1,
                 IF <<p, b>> \in st.exec /\ h[p].label \in DOMAIN phi.rhs
                 THEN Meet(acc, ValueOf(st.cell, phi.rhs[h[p].label]))
                 ELSE acc)

EvalPhi(h, st, b, phi) == MeetIncoming(h, st, b, phi, 1, Top)

RECURSIVE VisitPhis(_, _, _, _)
VisitPhis(h, st, b, names) ==
    IF names = {} THEN st
    ELSE LET x == CHOOSE n \in names : TRUE
             phi == h[b].phi_nodes[x]
         IN  VisitPhis(h, SetCell(st, phi.lhs, EvalPhi(h, st, b, phi)), b, names \ {x})

BlockOfLabel(h, label) == CHOOSE t \in 1..Len(h) : h[t].label = label

\* an edge found executable goes on the CFG worklist unless already marked
AddEdge(h, st, b, label) ==
    LET e == <<b, BlockOfLabel(h, label)>>
    IN  IF e \in st.exec THEN st ELSE [st EXCEPT !.flow_wl = @ \cup {e}]

\* the conditional jump at instruction i (jnz), decided by the cmp before it:
\* jnz is taken when the operands differ, the jump after it when they are equal
DecideJump(h, st, b, i) ==
    LET insts == h[b].instructions
        l == ValueOf(st.cell, insts[i - 1].left)
        r == ValueOf(st.cell, insts[i - 1].right)
    IN  IF l = Bottom \/ r = Bottom
        THEN AddEdge(h, AddEdge(h, st, b, insts[i].label), b, insts[i + 1].label)
        ELSE IF l = Top \/ r = Top THEN st
        ELSE IF l.c # r.c THEN AddEdge(h, st, b, insts[i].label)
        ELSE AddEdge(h, st, b, insts[i + 1].label)

VisitInstruction(h, st, b, i) ==
    LET insts == h[b].instructions
        inst == insts[i]
    IN  CASE inst.inst = "Assign" ->
                SetCell(st, inst.lhs, EvalOperation(inst.rhs, st.cell))
          [] inst.inst = "Jump" ->
                IF inst.kind = "jnz" THEN DecideJump(h, st, b, i)
                ELSE IF i > 1 /\ insts[i - 1].inst = "Jump" THEN st
                ELSE AddEdge(h, st, b, inst.label)
          [] OTHER -> st

\* every ordinary instruction of b in order, from instruction i on
RECURSIVE VisitBlock(_, _, _, _)
VisitBlock(h, st, b, i) ==
    IF i > Len(h[b].instructions) THEN st
    ELSE VisitBlock(h, VisitInstruction(h, st, b, i), b, i + 1)

OperandsOf(inst) ==
    CASE inst.inst = "Assign" ->
            ( CASE inst.rhs.tag = "Store" -> {}
                [] inst.rhs.tag = "Call" ->
                      {inst.rhs.args[k] : k \in 1..Len(inst.rhs.args)}
                [] inst.rhs.tag = "Binary" -> {inst.rhs.op1, inst.rhs.op2}
                [] inst.rhs.tag = "Unary" -> {inst.rhs.op} )
      [] inst.inst = "Cmp" -> {inst.left, inst.right}
      [] inst.inst = "Return" -> {inst.value[k] : k \in 1..Len(inst.value)}
      [] OTHER -> {}

\* the phis of visited block b that read v
RECURSIVE RevisitPhis(_, _, _, _, _)
RevisitPhis(h, st, v, b, names) ==
    IF names = {} THEN st
    ELSE LET x == CHOOSE n \in names : TRUE
             phi == h[b].phi_nodes[x]
             reads == \E l \in DOMAIN phi.rhs : phi.rhs[l] = v
         IN  RevisitPhis(h,
                 IF reads THEN SetCell(st, phi.lhs, EvalPhi(h, st, b, phi)) ELSE st,
                 v, b, names \ {x})

\* the instructions of visited block b that read v, from instruction i on; a
\* cmp that reads v re-decides the conditional jump after it
RECURSIVE RevisitInstructions(_, _, _, _, _)
RevisitInstructions(h, st, v, b, i) ==
    IF i > Len(h[b].instructions) THEN st
    ELSE LET inst == h[b].instructions[i]
         IN  RevisitInstructions(h,
                 IF v \notin OperandsOf(inst) THEN st
                 ELSE IF inst.inst = "Cmp" THEN VisitInstruction(h, st, b, i + 1)
                 ELSE VisitInstruction(h, st, b, i),
                 v, b, i + 1)

\* re-evaluate all instructions using v, block by block
RECURSIVE RevisitUses(_, _, _, _)
RevisitUses(h, st, v, b) ==
    IF b > Len(h) THEN st
    ELSE IF b \notin st.visited THEN RevisitUses(h, st, v, b + 1)
    ELSE RevisitUses(h,
             RevisitInstructions(h,
                 RevisitPhis(h, st, v, b, DOMAIN h[b].phi_nodes), v, b, 1),
             v, b + 1)

\* a use of a Const value is replaced by the constant itself
Substitute(cell, v) ==
    LET c == ValueOf(cell, v)
    IN  IF c.k = "Const" THEN ToString(c.c) ELSE v

RewriteOperation(cell, op) ==
    CASE op.tag = "Store" -> op
      [] op.tag = "Call" ->
            OpCall(op.name, [k \in 1..Len(op.args) |-> Substitute(cell, op.args[k])])
      [] op.tag = "Binary" ->
            OpBinary(op.type, Substitute(cell, op.op1), Substitute(cell, op.op2))
      [] op.tag = "Unary" -> OpUnary(op.type, Substitute(cell, op.op))

\* the instructions of retained block b after the rewrite, from instruction i
\* on: a definition whose cell is Const(c) becomes Store(c), and a conditional
\* jump with one executable arm becomes a jmp to it
RECURSIVE RewriteInstructions(_, _, _, _)
RewriteInstructions(h, st, b, i) ==
    IF i > Len(h[b].instructions) THEN <<>>
    ELSE LET insts == h[b].instructions
             inst == insts[i]
         IN  CASE inst.inst = "Assign" ->
                    <<InstAssign(inst.lhs,
                        IF st.cell[inst.lhs].k = "Const"
                        THEN OpStore(st.cell[inst.lhs].c)
                        ELSE RewriteOperation(st.cell, inst.rhs))>>
                    \o RewriteInstructions(h, st, b, i + 1)
               [] inst.inst = "Cmp" ->
                    LET taken == <<b, BlockOfLabel(h, insts[i + 1].label)>> \in st.exec
                        other == <<b, BlockOfLabel(h, insts[i + 2].label)>> \in st.exec
                    IN  IF taken /\ ~other
                        THEN <<InstJump("jmp", insts[i + 1].label)>>
                             \o RewriteInstructions(h, st, b, i + 3)
                        ELSE IF other /\ ~taken
                        THEN <<InstJump("jmp", insts[i + 2].label)>>
                             \o RewriteInstructions(h, st, b, i + 3)
                        ELSE <<InstCmp(Substitute(st.cell, inst.left),
                                       Substitute(st.cell, inst.right))>>
                             \o RewriteInstructions(h, st, b, i + 1)
               [] inst.inst = "Return" ->
                    <<InstReturn([k \in 1..Len(inst.value) |->
                                     Substitute(st.cell, inst.value[k])])>>
                    \o RewriteInstructions(h, st, b, i + 1)
               [] OTHER -> <<inst>> \o RewriteInstructions(h, st, b, i + 1)

\* the incoming map of a phi after the rewrite: the entries of deleted
\* predecessor blocks are dropped, the entries of retained ones stay
PruneIncoming(h, st, rhs) ==
    [l \in {k \in DOMAIN rhs : BlockOfLabel(h, k) \in st.visited} |->
        Substitute(st.cell, rhs[l])]

\* a retained block: rewritten instructions and phis, and only the edges that
\* were marked executable
RewriteBlock(h, st, b) ==
    [label |-> h[b].label,
     instructions |-> RewriteInstructions(h, st, b, 1),
     phi_nodes |-> [x \in DOMAIN h[b].phi_nodes |->
                       OpPhi(h[b].phi_nodes[x].lhs,
                             PruneIncoming(h, st, h[b].phi_nodes[x].rhs))],
     preds |-> SelectSeq(h[b].preds, LAMBDA p : <<p, b>> \in st.exec),
     succ |-> SelectSeq(h[b].succ, LAMBDA t : <<b, t>> \in st.exec)]

\* the blocks some executable edge reaches are retained; the others are deleted
\* from the function and their objects left as they were
Rewrite(h, st) ==
    [b \in 1..Len(h) |-> IF b \in st.visited THEN RewriteBlock(h, st, b) ELSE h[b]]

(* ------------------- SCCP().run(main) on SSA programs ------------------ *)

Block(label, phis, insts, preds, succ) ==
    [label |-> label, instructions |-> insts, phi_nodes |-> phis,
     preds |-> preds, succ |-> succ]

\* %k_v1
Tmp(k) == Version(TmpVarName(k), 1)

\* a phi keyed by the variable's name, with two incoming entries
Phi2(x, n, l1, v1, l2, v2) ==
    [k \in {x} |-> OpPhi(Version(x, n), DictSet(DictSet(EmptyDict, l1, v1), l2, v2))]

PhiMerge(a, b) == [k \in DOMAIN a \cup DOMAIN b |-> IF k \in DOMAIN a THEN a[k] ELSE b[k]]

\* a literal operand, as the IR prints it
Lit(c) == ToString(c)

\* a int = a0; if (a > 0) { a = 10; } return a;
ProgUnreachableDrop(a0) ==
    << Block(BlockName(0), EmptyDict,
             << InstAssign(Version("a", 1), OpStore(a0)),
                InstAssign(Tmp(0), OpBinary(">", Version("a", 1), Lit(0))),
                InstCmp(Tmp(0), Lit(0)),
                InstJump("jnz", BlockName(2)),
                InstJump("jz", BlockName(3)) >>,
             <<>>, <<2, 3>>),
       Block(BlockName(2), EmptyDict,
             << InstAssign(Version("a", 2), OpStore(10)),
                InstJump("jmp", BlockName(3)) >>,
             <<1>>, <<3>>),
       Block(BlockName(3),
             Phi2("a", 3, BlockName(0), Version("a", 1), BlockName(2), Version("a", 2)),
             << InstReturn(<<Version("a", 3)>>) >>,
             <<1, 2>>, <<>>) >>

\* a int = a0; b int = 10; if (a == 5) { b = a + 10; } return b;
ProgInterblock(a0) ==
    << Block(BlockName(0), EmptyDict,
             << InstAssign(Version("a", 1), OpStore(a0)),
                InstAssign(Version("b", 1), OpStore(10)),
                InstAssign(Tmp(0), OpBinary("==", Version("a", 1), Lit(5))),
                InstCmp(Tmp(0), Lit(0)),
                InstJump("jnz", BlockName(2)),
                InstJump("jz", BlockName(3)) >>,
             <<>>, <<2, 3>>),
       Block(BlockName(2), EmptyDict,
             << InstAssign(Version("b", 2), OpBinary("+", Version("a", 1), Lit(10))),
                InstJump("jmp", BlockName(3)) >>,
             <<1>>, <<3>>),
       Block(BlockName(3),
             Phi2("b", 3, BlockName(0), Version("b", 1), BlockName(2), Version("b", 2)),
             << InstReturn(<<Version("b", 3)>>) >>,
             <<1, 2>>, <<>>) >>

\* N int = n0;
\* for (i int = 0; i < 10; i = i + 1) { if (N > 10) { break; } N = (N + 1) * 2; }
\* return N;
ProgInitiallyDead(n0) ==
    << Block(BlockName(0), EmptyDict,
             << InstAssign(Version("N", 1), OpStore(n0)),
                InstJump("jmp", BlockName(2)) >>,
             <<>>, <<2>>),
       Block(BlockName(2), EmptyDict,
             << InstAssign(Version("i", 1), OpStore(0)),
                InstJump("jmp", BlockName(3)) >>,
             <<1>>, <<3>>),
       Block(BlockName(3),
             PhiMerge(Phi2("N", 2, BlockName(2), Version("N", 1), BlockName(6), Version("N", 3)),
                      Phi2("i", 2, BlockName(2), Version("i", 1), BlockName(6), Version("i", 3))),
             << InstAssign(Tmp(0), OpBinary("<", Version("i", 2), Lit(10))),
                InstCmp(Tmp(0), Lit(0)),
                InstJump("jnz", BlockName(5)),
                InstJump("jmp", BlockName(4)) >>,
             <<2, 6>>, <<5, 4>>),
       Block(BlockName(4), EmptyDict,
             << InstReturn(<<Version("N", 2)>>) >>,
             <<3, 7>>, <<>>),
       Block(BlockName(5), EmptyDict,
             << InstAssign(Tmp(3), OpBinary(">", Version("N", 2), Lit(10))),
                InstCmp(Tmp(3), Lit(0)),
                InstJump("jnz", BlockName(7)),
                InstJump("jz", BlockName(8)) >>,
             <<3>>, <<7, 8>>),
       Block(BlockName(6), EmptyDict,
             << InstAssign(Version("i", 3), OpBinary("+", Version("i", 2), Lit(1))),
                InstJump("jmp", BlockName(3)) >>,
             <<8>>, <<3>>),
       Block(BlockName(7), EmptyDict,
             << InstJump("jmp", BlockName(4)) >>,
             <<5>>, <<4>>),
       Block(BlockName(8), EmptyDict,
             << InstAssign(Tmp(6), OpBinary("+", Version("N", 2), Lit(1))),
                InstAssign(Version("N", 3), OpBinary("*", Tmp(6), Lit(2))),
                InstJump("jmp", BlockName(6)) >>,
             <<5>>, <<6>>) >>

\* the programs SCCP is run on
SCCPPrograms ==
    {ProgUnreachableDrop(a0) : a0 \in {0, 1}}
        \cup {ProgInterblock(a0) : a0 \in {5, 6}}
        \cup {ProgInitiallyDead(n0) : n0 \in {0, 11}}

\* every SSA value some instruction or phi of h defines
DefinedValues(h) ==
    UNION {{h[b].instructions[i].lhs :
                i \in {j \in 1..Len(h[b].instructions) :
                          h[b].instructions[j].inst = "Assign"}}
           \cup {h[b].phi_nodes[x].lhs : x \in DOMAIN h[b].phi_nodes} :
           b \in 1..Len(h)}

\* the pass before its first step: every cell Top, no edge executable but the
\* virtual edge into the entry block, which is on the CFG worklist
SCCPStart(h, entry) ==
    [phase |-> "run", entry |-> entry,
     cell |-> [v \in DefinedValues(h) |-> Top],
     exec |-> {}, flow_wl |-> {<<NoBlock, entry>>}, ssa_wl |-> {},
     visited |-> {}, dead_at_visit |-> {}]

InitSCCP ==
    /\ heap \in SCCPPrograms
    /\ block_counter = 0
    /\ tmp_var_counter = 0
    /\ current_block = NoBlock
    /\ current_cfg = CFG(NoBlock, NoBlock, <<>>)
    /\ break_targets = <<>>
    /\ continue_targets = <<>>
    /\ cfgs = <<>>
    /\ stack = <<>>
    /\ pc = "sccp"
    /\ ninputs = 0
    /\ last = [stmt |-> "none"]
    /\ sccp = SCCPStart(heap, 1)

\* the outgoing edges of v that are neither executable nor queued
DeadEdges(h, st, v) ==
    {<<v, h[v].succ[i]>> : i \in 1..Len(h[v].succ)} \ (st.exec \cup st.flow_wl)

\* edge e = (u -> v) becomes executable: the phis of v, and at the first
\* executable incoming edge of v every ordinary instruction in order
MarkExecutable(h, st, e) ==
    LET v == e[2]
        marked == [st EXCEPT !.exec = @ \cup {e}]
        phis == VisitPhis(h, marked, v, DOMAIN h[v].phi_nodes)
    IN  IF v \in st.visited THEN phis
        ELSE LET first == VisitBlock(h, [phis EXCEPT !.visited = @ \cup {v}], v, 1)
             IN  [first EXCEPT !.dead_at_visit = @ \cup DeadEdges(h, first, v)]

\* one pop of the CFG-edge worklist
SCCPPopFlow ==
    /\ pc = "sccp" /\ sccp.phase = "run"
    /\ \E e \in sccp.flow_wl :
          LET popped == [sccp EXCEPT !.flow_wl = @ \ {e}]
          IN  sccp' = IF e \in sccp.exec THEN popped
                      ELSE MarkExecutable(heap, popped, e)
    /\ UNCHANGED <<heap, block_counter, tmp_var_counter, current_block, current_cfg,
                   break_targets, continue_targets, cfgs, stack, pc, ninputs, last>>

\* one pop of the SSA-value worklist
SCCPPopValue ==
    /\ pc = "sccp" /\ sccp.phase = "run"
    /\ \E v \in sccp.ssa_wl :
          sccp' = RevisitUses(heap, [sccp EXCEPT !.ssa_wl = @ \ {v}], v, 1)
    /\ UNCHANGED <<heap, block_counter, tmp_var_counter, current_block, current_cfg,
                   break_targets, continue_targets, cfgs, stack, pc, ninputs, last>>

\* the rewrite pass, once both worklists are empty
SCCPRewrite ==
    /\ pc = "sccp" /\ sccp.phase = "run"
    /\ sccp.flow_wl = {} /\ sccp.ssa_wl = {}
    /\ heap' = Rewrite(heap, sccp)
    /\ sccp' = [sccp EXCEPT !.phase = "done"]
    /\ last' = [stmt |-> "SCCP", before |-> heap]
    /\ UNCHANGED <<block_counter, tmp_var_counter, current_block, current_cfg,
                   break_targets, continue_targets, cfgs, stack, pc, ninputs>>

NextSCCP == SCCPPopFlow \/ SCCPPopValue \/ SCCPRewrite

SpecSCCP == InitSCCP /\ [][NextSCCP]_vars

\* SCCP.run loops until both worklists are empty and then rewrites
SpecSCCPFair == SpecSCCP /\ WF_vars(NextSCCP)

(* -------------- BasicBlock.insert_phi called directly ------------------ *)

\* base names phis are inserted for: a source variable and a temporary
PhiNames == {"x", TmpVarName(0)}

\* SSA values recorded as incoming entries
PhiValues == {"x_v1", "x_v2"}

InitPhi ==
    /\ heap = [i \in 1..NumBlocks |-> BasicBlock(BlockName(i - 1))]
    /\ block_counter = NumBlocks
    /\ tmp_var_counter = 0
    /\ current_block = NoBlock
    /\ current_cfg = CFG(NoBlock, NoBlock, <<>>)
    /\ break_targets = <<>>
    /\ continue_targets = <<>>
    /\ cfgs = <<>>
    /\ stack = <<>>
    /\ pc = "phi"
    /\ ninputs = 0
    /\ last = [stmt |-> "none"]
    /\ sccp = NoSCCP

InsertPhiCall ==
    /\ pc = "phi" /\ ninputs < MaxPhiCalls
    /\ \E self \in 1..Len(heap), name \in PhiNames :
         /\ heap' = insert_phi(heap, self, name)
         /\ last' = [stmt |-> "insert_phi", self |-> self, name |-> name,
                     before |-> heap]
    /\ ninputs' = ninputs + 1
    /\ UNCHANGED <<block_counter, tmp_var_counter, current_block, current_cfg,
                   break_targets, continue_targets, cfgs, stack, pc>>
    /\ UNCHANGED sccp

\* phi.rhs[label] = value on a phi a block holds
PhiIncomingSet ==
    /\ pc = "phi" /\ ninputs < MaxPhiCalls
    /\ \E self \in 1..Len(heap), pred \in 1..Len(heap), value \in PhiValues :
         \E name \in DOMAIN heap[self].phi_nodes :
           /\ heap' = [heap EXCEPT ![self].phi_nodes[name].rhs =
                                      DictSet(@, heap[pred].label, value)]
           /\ last' = [stmt |-> "phi_incoming", self |-> self, name |-> name,
                       before |-> heap]
    /\ ninputs' = ninputs + 1
    /\ UNCHANGED <<block_counter, tmp_var_counter, current_block, current_cfg,
                   break_targets, continue_targets, cfgs, stack, pc>>
    /\ UNCHANGED sccp

NextPhi == InsertPhiCall \/ PhiIncomingSet

SpecPhi == InitPhi /\ [][NextPhi]_vars

(* --------------------- notions the claims are about -------------------- *)

Blocks == 1..Len(heap)

Insts(b) == heap[b].instructions

HasJumpTo(u, label) ==
    \E i \in 1..Len(Insts(u)) :
        Insts(u)[i].inst = "Jump" /\ Insts(u)[i].label = label

EndsWith(u, inst) == Insts(u) # <<>> /\ Insts(u)[Len(Insts(u))] = inst

\* v follows u in both lists
Linked(u, v) == InSeq(v, heap[u].succ) /\ InSeq(u, heap[v].preds)

\* an edge that comes with its jump
JumpEdge(u, v) == Linked(u, v) /\ HasJumpTo(u, heap[v].label)

RECURSIVE ReachableFrom(_, _)
ReachableFrom(seen, frontier) ==
    IF frontier = {} THEN seen
    ELSE LET next == { v \in Blocks : \E u \in frontier : InSeq(v, heap[u].succ) }
         IN  ReachableFrom(seen \cup frontier, next \ (seen \cup frontier))

\* no function is being built: every block of the heap is in a finished CFG
AllBuilt == pc = "build" /\ stack = <<>> /\ cfgs # <<>>

(* ------------------------------ claims -------------------------------- *)

\* C1: after a function is built, every Jump(kind, L) held in a block u has a
\* block v labelled L with v in u.succ and u in v.preds.
C1_EveryJumpIsLinked ==
    AllBuilt =>
        \A u \in Blocks : \A i \in 1..Len(Insts(u)) :
            Insts(u)[i].inst = "Jump" =>
                \E v \in Blocks : heap[v].label = Insts(u)[i].label /\ Linked(u, v)

\* C2: after any sequence of add_child and add_pred calls, v is in u.succ
\* exactly when u is in v.preds, for all blocks u and v.
C2_SuccPredsSymmetric ==
    \A u \in Blocks, v \in Blocks :
        InSeq(v, heap[u].succ) <=> InSeq(u, heap[v].preds)

\* add_pred has just linked two blocks in both directions after add_child calls
C2_Witness ==
    /\ pc = "links" /\ last.stmt = "add_pred" /\ ninputs >= 3
    /\ Linked(last.bb, last.self)
    /\ \E u \in Blocks : Len(heap[u].succ) >= 2

\* C3: after a function is built, every edge u -> v has a Jump to v.label in
\* u, or v is the exit block and u ends in a Return; every block other than
\* exit that has a successor ends in a Jump or a Return.
C3_EveryEdgeHasTerminator ==
    AllBuilt =>
        \A u \in Blocks :
            /\ \A v \in Blocks :
                 InSeq(v, heap[u].succ) =>
                    \/ HasJumpTo(u, heap[v].label)
                    \/ /\ \E k \in 1..Len(cfgs) : cfgs[k].cfg.exit = v
                       /\ Insts(u) # <<>>
                       /\ Insts(u)[Len(Insts(u))].inst = "Return"
            /\ (heap[u].succ # <<>> /\ heap[u].label # "exit") =>
                 /\ Insts(u) # <<>>
                 /\ Insts(u)[Len(Insts(u))].inst \in {"Jump", "Return"}

\* C4: after a function is built, every block reachable from entry through
\* succ edges is in the CFG's blocks list and get_block_by_name finds it.
C4_ReachableBlocksListed ==
    AllBuilt =>
        \A k \in 1..Len(cfgs) :
            \A b \in ReachableFrom({}, {cfgs[k].cfg.entry}) :
                /\ InSeq(b, cfgs[k].cfg.blocks)
                /\ get_block_by_name(heap, cfgs[k].cfg, heap[b].label) = b

\* C5: lowering `x T = e` or `x = e` appends, for every e, an Assign whose lhs
\* is x as the last instruction emitted for the statement.
C5_AssignToTargetEmitted ==
    last.stmt \in {"Assignment", "Reassignment"} =>
        /\ Len(Insts(last.block)) > last.before
        /\ Insts(last.block)[Len(Insts(last.block))].inst = "Assign"
        /\ Insts(last.block)[Len(Insts(last.block))].lhs = SSAValue(last.name)

\* C6: after lowering a break or continue the cursor is a fresh block without
\* predecessors, so no instruction follows an unconditional jmp in any block.
C6_FreshBlockAfterBreak ==
    /\ (last.stmt \in {"Break", "Continue"} /\ pc = "build") =>
          /\ current_block # last.block
          /\ heap[current_block].preds = <<>>
          /\ Insts(current_block) = <<>>
    /\ \A u \in Blocks : \A i \in 1..Len(Insts(u)) :
          (Insts(u)[i].inst = "Jump" /\ Insts(u)[i].kind = "jmp") => i = Len(Insts(u))

\* C7: lowering `for { body }` ends the block in which the body's lowering
\* ended with `jmp body` and links that block to the body block.
C7_BackEdgeToBody ==
    last.stmt = "UnconditionalLoop" =>
        /\ JumpEdge(last.block, last.init_block)
        /\ JumpEdge(last.init_block, last.body_block)
        /\ EndsWith(last.body_end, InstJump("jmp", heap[last.body_block].label))
        /\ Linked(last.body_end, last.body_block)

\* C8: the init block of a counted for-loop holds an Assign to the loop
\* variable of the init declaration, placed before its `jmp` to the header.
C8_InitLoweredInInitBlock ==
    last.stmt = "ForLoop" =>
        \E i \in 1..Len(Insts(last.init_block)), j \in 1..Len(Insts(last.init_block)) :
            /\ i < j
            /\ Insts(last.init_block)[i].inst = "Assign"
            /\ Insts(last.init_block)[i].lhs = SSAValue(last.ast.init.name)
            /\ Insts(last.init_block)[j] = InstJump("jmp", heap[last.header_block].label)

\* the value v is defined as the literal n by some instruction of the heap
DefinedAsLiteral(v, n) ==
    \E b \in Blocks : \E i \in 1..Len(Insts(b)) :
        Insts(b)[i] = InstAssign(v, OpStore(n))

\* C9: the header of a counted for-loop ends with a Cmp whose right operand is
\* defined as the literal 1, then `jnz body`, then `jmp exit`.
C9_HeaderComparesWithOne ==
    last.stmt = "ForLoop" =>
        LET insts == Insts(last.header_block)
            n == Len(insts)
        IN  /\ n >= 3
            /\ insts[n - 2].inst = "Cmp"
            /\ DefinedAsLiteral(insts[n - 2].right, 1)
            /\ insts[n - 1] = InstJump("jnz", heap[last.body_block].label)
            /\ insts[n] = InstJump("jmp", heap[last.exit_block].label)

\* C10: a counted for-loop creates five new blocks and the edges
\* current -> init, init -> header, header -> body, header -> exit,
\* (end of body) -> update, update -> header, each with its jump; the header
\* has exactly the successors body and exit, the update block holds the
\* lowered update followed by `jmp header`, and the cursor is the exit block.
C10_ForLoopShape ==
    last.stmt = "ForLoop" =>
        LET five == <<last.init_block, last.header_block, last.body_block,
                      last.update_block, last.exit_block>>
        IN  /\ \A i \in 1..5 : five[i] \in Blocks /\ five[i] # last.block
            /\ \A i \in 1..5, j \in 1..5 :
                  i # j => five[i] # five[j] /\ heap[five[i]].label # heap[five[j]].label
            /\ JumpEdge(last.block, last.init_block)
            /\ JumpEdge(last.init_block, last.header_block)
            /\ JumpEdge(last.header_block, last.body_block)
            /\ JumpEdge(last.header_block, last.exit_block)
            /\ JumpEdge(last.body_end, last.update_block)
            /\ JumpEdge(last.update_block, last.header_block)
            /\ heap[last.header_block].succ = <<last.body_block, last.exit_block>>
            /\ heap[last.init_block].succ = <<last.header_block>>
            /\ heap[last.update_block].succ = <<last.header_block>>
            /\ heap[last.init_block].preds = <<last.block>>
            /\ heap[last.header_block].preds = <<last.init_block, last.update_block>>
            /\ heap[last.body_block].preds = <<last.header_block>>
            /\ heap[last.exit_block].preds[1] = last.header_block
            /\ InSeq(last.body_end, heap[last.update_block].preds)
            /\ Insts(last.update_block) =
                  last.update_insts \o <<InstJump("jmp", heap[last.header_block].label)>>
            /\ current_block = last.exit_block

\* a counted loop whose body ended in another block than the body block
C10_Witness ==
    /\ last.stmt = "ForLoop"
    /\ last.body_end # last.body_block
    /\ current_block = last.exit_block

C12_ReturnClosesBlock ==
    /\ last.stmt = "Return" =>
          /\ EndsWith(last.block, InstReturn(IF last.value = <<>> THEN <<>>
                                             ELSE <<last.ret_ssa>>))
          /\ last.value # <<>> =>
                IF last.value[1].type = "Identifier"
                THEN last.ret_ssa = SSAValue(last.value[1].name)
                ELSE /\ Len(Insts(last.block)) >= 2
                     /\ Insts(last.block)[Len(Insts(last.block)) - 1].inst = "Assign"
                     /\ Insts(last.block)[Len(Insts(last.block)) - 1].lhs = last.ret_ssa
          /\ InSeq(current_cfg.exit, heap[last.block].succ)
          /\ current_block = Len(heap)
          /\ current_block # last.block
          /\ Insts(current_block) = <<>>
          /\ heap[current_block].preds = <<>>
          /\ heap[current_block].succ = <<>>
    /\ \A b \in Blocks : \A i \in 1..Len(Insts(b)) :
          Insts(b)[i].inst = "Return" => i = Len(Insts(b))

\* a return with a value lowered into the block opened by an earlier return
C12_Witness ==
    /\ last.stmt = "Return"
    /\ last.value # <<>>
    /\ \E b \in Blocks : b # last.block /\ Insts(b) # <<>>
                         /\ Insts(b)[Len(Insts(b))].inst = "Return"
                         /\ last.block = b + 1

\* C15: a break or continue lowered while no loop is open fails with an error
\* and leaves the current block unchanged; neither is silently skipped.
C15_BreakContinueOutsideLoopFail ==
    (last.stmt \in {"Break", "Continue"} /\ last.target = NoBlock) =>
        /\ pc = "error"
        /\ Len(Insts(last.block)) = last.before

\* the frames of the loops that are open, innermost first
LoopFrames ==
    SelectSeq(stack, LAMBDA f : f.frame \in {"ForLoop", "UnconditionalLoop"})

\* C17: a break jumps and links to the exit block of the innermost enclosing
\* loop, a continue to its update block (counted loop) or init block
\* (unconditional loop), also after an inner loop has been lowered; the two
\* target stacks have the depth of the open loops.
C17_BreakContinueTargets ==
    /\ Len(break_targets) = Len(LoopFrames)
    /\ Len(continue_targets) = Len(LoopFrames)
    /\ (last.stmt = "Break" /\ LoopFrames # <<>>) =>
          /\ last.target = Head(LoopFrames).exit_block
          /\ JumpEdge(last.block, last.target)
          /\ EndsWith(last.block, InstJump("jmp", heap[last.target].label))
    /\ (last.stmt = "Continue" /\ LoopFrames # <<>>) =>
          /\ last.target = IF Head(LoopFrames).frame = "ForLoop"
                           THEN Head(LoopFrames).update_block
                           ELSE Head(LoopFrames).init_block
          /\ JumpEdge(last.block, last.target)
          /\ EndsWith(last.block, InstJump("jmp", heap[last.target].label))

\* a break in the body of an outer loop right after an inner loop was lowered
C17_Witness ==
    /\ last.stmt = "Break"
    /\ last.prev \in {"ForLoop", "UnconditionalLoop"}
    /\ last.target # NoBlock
    /\ Len(LoopFrames) = 1

\* C20: in every built CFG each predecessor of a block reachable from entry is
\* itself reachable from entry.
C20_PredsOfReachableAreReachable ==
    AllBuilt =>
        \A k \in 1..Len(cfgs) :
            LET reach == ReachableFrom({}, {cfgs[k].cfg.entry})
            IN  \A b \in reach : \A i \in 1..Len(heap[b].preds) :
                    heap[b].preds[i] \in reach

\* C16: insert_phi(name) on a block that already holds a phi for name leaves
\* every block unchanged (the phi keeps its recorded incoming entries); on a
\* block without one it adds an empty phi for name and changes nothing else;
\* every phi a block holds is filed under its own base name.
C16_InsertPhiIdempotent ==
    /\ last.stmt = "insert_phi" =>
          LET old == last.before[last.self].phi_nodes
          IN  IF last.name \in DOMAIN old
              THEN heap = last.before
              ELSE heap = [last.before EXCEPT ![last.self].phi_nodes =
                              DictSet(old, last.name,
                                      OpPhi(SSAValue(last.name), EmptyDict))]
    /\ \A b \in 1..Len(heap) : \A n \in DOMAIN heap[b].phi_nodes :
          heap[b].phi_nodes[n].lhs = SSAValue(n)

C16_Witness ==
    /\ last.stmt = "insert_phi"
    /\ last.name \in DOMAIN last.before[last.self].phi_nodes
    /\ DOMAIN heap[last.self].phi_nodes[last.name].rhs # {}

\* the number of nodes of an expression tree that are not identifiers
RECURSIVE NodeCount(_)
RECURSIVE ArgsNodeCount(_, _)
NodeCount(e) ==
    CASE e.type = "Identifier" -> 0
      [] e.type = "IntegerLiteral" -> 1
      [] e.type = "UnaryOp" -> 1 + NodeCount(e.operand)
      [] e.type = "BinaryOp" -> 1 + NodeCount(e.left) + NodeCount(e.right)
      [] e.type = "CallExpression" -> 1 + ArgsNodeCount(e.args, 1)

ArgsNodeCount(args, i) ==
    IF i > Len(args) THEN 0 ELSE NodeCount(args[i]) + ArgsNodeCount(args, i + 1)

\* insts[hi] is the Assign of node e, directly preceded by the instructions of
\* e's operands, the last operand nearest; v is the operand a parent reads
RECURSIVE LoweredAt(_, _, _)
RECURSIVE OperandAt(_, _, _, _)
RECURSIVE ArgsAt(_, _, _, _, _)
LoweredAt(e, insts, hi) ==
    /\ hi \in 1..Len(insts)
    /\ insts[hi].inst = "Assign"
    /\ CASE e.type = "IntegerLiteral" -> insts[hi].rhs = OpStore(e.value)
         [] e.type = "UnaryOp" ->
               /\ insts[hi].rhs.tag = "Unary" /\ insts[hi].rhs.type = e.op
               /\ OperandAt(e.operand, insts[hi].rhs.op, insts, hi - 1)
         [] e.type = "BinaryOp" ->
               /\ insts[hi].rhs.tag = "Binary" /\ insts[hi].rhs.type = e.op
               /\ OperandAt(e.right, insts[hi].rhs.op2, insts, hi - 1)
               /\ OperandAt(e.left, insts[hi].rhs.op1, insts,
                            hi - 1 - NodeCount(e.right))
         [] e.type = "CallExpression" ->
               /\ insts[hi].rhs.tag = "Call" /\ insts[hi].rhs.name = e.func_name
               /\ Len(insts[hi].rhs.args) = Len(e.args)
               /\ ArgsAt(e.args, insts[hi].rhs.args, Len(e.args), insts, hi - 1)
         [] OTHER -> FALSE

OperandAt(e, v, insts, hi) ==
    IF e.type = "Identifier" THEN v = e.name
    ELSE /\ LoweredAt(e, insts, hi)
         /\ insts[hi].lhs = v

ArgsAt(args, values, i, insts, hi) ==
    i = 0 \/ ( /\ OperandAt(args[i], values[i], insts, hi)
               /\ ArgsAt(args, values, i - 1, insts, hi - NodeCount(args[i])) )

BlocksOf(k) ==
    {b \in 1..Len(heap) :
        /\ b >= cfgs[k].cfg.entry
        /\ k < Len(cfgs) => b < cfgs[k + 1].cfg.entry}

\* C13: after SSA construction every phi of every block of the function has
\* exactly one incoming entry for each block in the preds list of its block.
C13_PhiComplete ==
    last.stmt = "SSA" =>
        \A b \in BlocksOf(last.cfg) : \A x \in DOMAIN heap[b].phi_nodes :
            DOMAIN heap[b].phi_nodes[x].rhs =
                {heap[heap[b].preds[i]].label : i \in 1..Len(heap[b].preds)}

\* C14: after the SCCP rewrite every phi of every retained block has exactly
\* one incoming entry per remaining predecessor, and every entry comes from a
\* retained block over an edge that was marked executable
C14_PhiEntriesPruned ==
    last.stmt = "SCCP" =>
        \A b \in sccp.visited : \A x \in DOMAIN heap[b].phi_nodes :
            LET rhs == heap[b].phi_nodes[x].rhs
            IN  /\ DOMAIN rhs = {heap[heap[b].preds[i]].label : i \in 1..Len(heap[b].preds)}
                /\ \A l \in DOMAIN rhs :
                      /\ BlockOfLabel(heap, l) \in sccp.visited
                      /\ <<BlockOfLabel(heap, l), b>> \in sccp.exec

\* new is old or below it in the lattice
Descends(old, new) == new = old \/ old = Top \/ new = Bottom

\* C19: during SCCP every lattice cell only moves downward and no executable
\* flag is cleared, and both worklists eventually become empty whatever the
\* order of pops
C19_DescentAndTermination ==
    /\ [][/\ \A v \in DOMAIN sccp.cell : Descends(sccp.cell[v], sccp'.cell[v])
          /\ sccp.exec \subseteq sccp'.exec]_vars
    /\ <>(sccp.flow_wl = {} /\ sccp.ssa_wl = {})

\* both worklists are empty and an edge that was not executable when its
\* block was first visited is executable
C19_Witness ==
    /\ sccp.phase = "run"
    /\ sccp.flow_wl = {} /\ sccp.ssa_wl = {}
    /\ sccp.dead_at_visit \cap sccp.exec # {}
    /\ \E v \in DOMAIN sccp.cell : sccp.cell[v] = Bottom


\* the positions <<block, index>> of the instructions of h
Positions(h) ==
    UNION {{<<b, i>> : i \in 1..Len(h[b].instructions)} : b \in 1..Len(h)}

InstAt(h, p) == h[p[1]].instructions[p[2]]

\* the temporaries %0 .. %(n-1) handed out so far
TmpNames(n) == {TmpVarName(c) : c \in 0..(n - 1)}

\* the instructions of h that define a temporary of T
TmpDefinitions(h, T) ==
    {p \in Positions(h) : InstAt(h, p).inst = "Assign" /\ InstAt(h, p).lhs \in T}

\* no two instructions of h define the same temporary
TempsDefinedOnce(h, n) ==
    LET D == TmpDefinitions(h, TmpNames(n))
    IN  Cardinality({InstAt(h, p).lhs : p \in D}) = Cardinality(D)

\* the positions a step from heap h to heap g appended
Appended(h, g) ==
    UNION {{<<b, i>> : i \in (IF b <= Len(h) THEN Len(h[b].instructions) ELSE 0) + 1
                                ..Len(g[b].instructions)} : b \in 1..Len(g)}

\* in a step from heap h, the instruction at p was appended before the one at
\* q: it was there already, or it precedes q in q's block, or it is in a
\* block the step created before q's block (a loop fills its init block, then
\* its header)
AppendedBefore(h, p, q) ==
    \/ p[1] <= Len(h) /\ p[2] <= Len(h[p[1]].instructions)
    \/ p[1] = q[1] /\ p[2] < q[2]
    \/ Len(h) < p[1] /\ p[1] < q[1]

\* C21: across all functions built by one CFGBuilder every temporary %k is
\* the lhs of at most one instruction of the whole program, and every %k that
\* is an operand of an Assign, Cmp or Return is defined by an Assign appended
\* before that use
C21_TempsDefinedOnceBeforeUse ==
    [][LET T == TmpNames(tmp_var_counter')
           D == TmpDefinitions(heap', T)
       IN  /\ TempsDefinedOnce(heap', tmp_var_counter')
           /\ \A q \in Appended(heap, heap') :
                 \A t \in OperandsOf(InstAt(heap', q)) \cap T :
                     \E p \in D : /\ InstAt(heap', p).lhs = t
                                  /\ AppendedBefore(heap, p, q)]_vars

\* two functions are built, both define temporaries, and the second uses a
\* temporary in a Cmp or a Return
C21_Witness ==
    /\ pc = "done" /\ Len(cfgs) = 2
    /\ \A k \in 1..2 :
          \E p \in TmpDefinitions(heap, TmpNames(tmp_var_counter)) : p[1] \in BlocksOf(k)
    /\ \E q \in Positions(heap) :
          /\ q[1] \in BlocksOf(2)
          /\ InstAt(heap, q).inst \in {"Cmp", "Return"}
          /\ OperandsOf(InstAt(heap, q)) \cap TmpNames(tmp_var_counter) # {}

====
